---- MODULE Spec2Model ----
(***************************************************************************)
(* Model of gcn_node_classification/gat.py: the graph attention layer      *)
(* GATLayer (constructor and forward).                                     *)
(*                                                                         *)
(* Tensors are functions from index tuples (0-based, as in the source) to  *)
(* numbers, together with an explicit shape tuple.  Real arithmetic is     *)
(* exact: features, weights and logits are integers (logits in units of    *)
(* 1/AlphaDen, so that the leaky rectifier with slope 1/AlphaDen stays     *)
(* integral), probabilities and outputs are reduced fractions [n, d].      *)
(* exp is a fixed-point table that underflows to 0, as the floating-point  *)
(* exp does, and the fill value -9e15 is kept as written in the source.    *)
(***************************************************************************)
EXTENDS Integers, Sequences, FiniteSets, TLC

\* ------------------------------------------------------------------ bounds
MaxCOut == 2
MaxHeads == 2
MaxBatch == 2
MaxNodes == 2
MaxSeed == 1
MaxAdjCode == 15

\* ------------------------------------------------------- exact arithmetic
\* the tensor f, tabulated once instead of recomputed at every use
Tab(f) == IF f = f THEN f ELSE f

Abs(x) == IF x < 0 THEN -x ELSE x
Max2(x, y) == IF x >= y THEN x ELSE y

RECURSIVE GCD(_, _)
GCD(x, y) == IF y = 0 THEN x ELSE GCD(y, x % y)

\* the fraction n/d (d # 0), reduced, with a positive denominator
Rat(n, d) ==
  LET g == GCD(Abs(n), Abs(d))
      s == IF d < 0 THEN -1 ELSE 1
  IN [n |-> s * (n \div g), d |-> s * (d \div g)]

RAdd(p, q) == Rat(p.n * q.d + q.n * p.d, p.d * q.d)
RMulInt(p, k) == Rat(p.n * k, p.d)
RDivInt(p, k) == Rat(p.n, p.d * k)
RZero == [n |-> 0, d |-> 1]
ROne == [n |-> 1, d |-> 1]

\* sum of the integers f[0] .. f[n-1]
RECURSIVE SumInt(_, _)
SumInt(f, n) == IF n = 0 THEN 0 ELSE f[n - 1] + SumInt(f, n - 1)

\* sum of the fractions f[0] .. f[n-1]
RECURSIVE SumRat(_, _)
SumRat(f, n) == IF n = 0 THEN RZero ELSE RAdd(f[n - 1], SumRat(f, n - 1))

\* --------------------------------------------------------- the constructor
\* nn.init.xavier_normal_ draws the weights at random; the model draws them
\* from a family of small integer matrices indexed by a seed.
InitProjection(rows, cols, seed) ==
  [k \in 0..(rows - 1), c \in 0..(cols - 1) |-> ((seed + 2 * k + c + 1) % 3) - 1]

InitA(heads, width, seed) ==
  [h \in 0..(heads - 1), k \in 0..(width - 1) |-> ((2 * seed + h + 2 * k + 2) % 3) - 1]

\* the per-head width when c_out is not divided by the number of heads
MutWidthNotDivided(c_out, num_heads, concat_heads) == c_out

\* the per-head width computed by __init__ (c_out is rebound when concatenating)
PerHeadWidth(c_out, num_heads, concat_heads) ==
  IF concat_heads THEN c_out \div num_heads ELSE c_out

\* the constructor with the assert left out
MutAssertDropped(c_out, num_heads, concat_heads) == TRUE

\* the assert of __init__
AssertHolds(c_out, num_heads, concat_heads) ==
  concat_heads => (c_out % num_heads = 0)

NoLayer == [status |-> "none"]

GATLayerInit(c_in, c_out, num_heads, concat_heads, seed) ==
  IF ~AssertHolds(c_out, num_heads, concat_heads)
  THEN [status |-> "AssertionError", c_in |-> c_in, c_out_arg |-> c_out,
        num_heads |-> num_heads, concat_heads |-> concat_heads]
  ELSE LET w == PerHeadWidth(c_out, num_heads, concat_heads)
       IN [status |-> "ok", c_in |-> c_in, c_out_arg |-> c_out,
           num_heads |-> num_heads, concat_heads |-> concat_heads,
           c_out |-> w,
           projection |-> InitProjection(w * num_heads, c_in, seed),
           a |-> InitA(num_heads, 2 * w, seed)]

\* ------------------------------------------------------------ the leaky rectifier
\* alpha = 0.2 = AlphaNum / AlphaDen (the default of __init__)
AlphaNum == 1
AlphaDen == 5

\* nn.LeakyReLU(alpha) of the integer x, in units of 1/AlphaDen
LeakyRelu(x) == IF x >= 0 THEN AlphaDen * x ELSE AlphaNum * x

\* ------------------------------------------------------------ dense logits
\* An entry of the dense logit tensor is e15 * 10^15 + u / AlphaDen, where
\* |u / AlphaDen| is far below 10^15 for every logit the model computes.
Logit(u) == [e15 |-> 0, u |-> u]

\* the dense tensor left at the zeros of new_zeros
MutFillZero == Logit(0)

FillValue == [e15 |-> -9, u |-> 0]
LogitLeq(v, w) == (v.e15 < w.e15) \/ (v.e15 = w.e15 /\ v.u <= w.u)

\* round(64 * exp(-k/5)) for k = 0, 1, ...; exp underflows to 0 beyond the table
ExpTable ==
  << 64, 52, 43, 35, 29, 24, 19, 16, 13, 11, 9, 7, 6, 5, 4, 3, 3, 2, 2, 1, 1, 1, 1, 1, 1 >>

\* exp(v - m) for v <= m, as softmax computes it after subtracting the row maximum
ExpDiff(v, m) ==
  IF v.e15 < m.e15 THEN 0
  ELSE IF m.u - v.u >= Len(ExpTable) THEN 0
  ELSE ExpTable[m.u - v.u + 1]


\* ------------------------------------------------------------ forward, step by step
Failure(step) == [status |-> "error", raised_at |-> step, printed |-> << >>]

\* a failure of a step that follows the print branch
FailureAfterPrint(step, printed) == [status |-> "error", raised_at |-> step, printed |-> printed]

\* size(0) and size(1) of node_feats
BatchSize(fshape) == fshape[1]
NumNodes(fshape) == fshape[2]

\* nn.Linear accepts the input only when its last dimension is its in_features
LinearAccepts(L, fshape) == fshape[3] = L.c_in

\* self.projection(node_feats).view(batch_size, num_nodes, num_heads, -1):
\* entry [b, i, h, c] is column h * c_out + c of the projected row of node (b, i)
Projection(L, node_feats, fshape) ==
  [b \in 0..(fshape[1] - 1), i \in 0..(fshape[2] - 1),
   h \in 0..(L.num_heads - 1), c \in 0..(L.c_out - 1) |->
     SumInt([k \in 0..(L.c_in - 1) |->
               L.projection[h * L.c_out + c, k] * node_feats[b, i, k]], L.c_in)]

\* the index triples of a tensor of shape ashape, in row-major order
AllPositions(ashape) ==
  [p \in 1..(ashape[1] * ashape[2] * ashape[3]) |->
     << (p - 1) \div (ashape[2] * ashape[3]),
        ((p - 1) \div ashape[3]) % ashape[2],
        (p - 1) % ashape[3] >>]

\* adj_matrix.nonzero(as_tuple=False): the indices of the nonzero entries, row-major
Nonzero(adj_matrix, ashape) ==
  SelectSeq(AllPositions(ashape), LAMBDA e : adj_matrix[e[1], e[2], e[3]] # 0)

\* node_feats.view(batch_size * num_nodes, num_heads, -1)
NodeFeatsFlat(feats, fshape, L) ==
  [r \in 0..(fshape[1] * fshape[2] - 1),
   h \in 0..(L.num_heads - 1), c \in 0..(L.c_out - 1) |->
     feats[r \div fshape[2], r % fshape[2], h, c]]

\* edges[:, 0] * num_nodes + edges[:, 1]
EdgeIndicesRow(edges, num_nodes) ==
  [e \in 1..Len(edges) |-> edges[e][1] * num_nodes + edges[e][2]]

\* the source index without the offset of its batch element
MutColNoBatchOffset(edges, num_nodes) ==
  [e \in 1..Len(edges) |-> edges[e][3]]

\* edges[:, 0] * num_nodes + edges[:, 2]
EdgeIndicesCol(edges, num_nodes) ==
  [e \in 1..Len(edges) |-> edges[e][1] * num_nodes + edges[e][3]]

\* torch.index_select raises when an index is outside the selected dimension
IndexSelectAccepts(indices, size) ==
  \A e \in 1..Len(indices) : indices[e] >= 0 /\ indices[e] < size

\* torch.cat([index_select(row), index_select(col)], dim=-1): entry [e, h, k]
AInput(flat, rows, cols, L) ==
  [e \in 1..Len(rows), h \in 0..(L.num_heads - 1), k \in 0..(2 * L.c_out - 1) |->
     IF k < L.c_out THEN flat[rows[e], h, k] ELSE flat[cols[e], h, k - L.c_out]]

\* leakyrelu(einsum('bhc,hc->bh', a_input, a)): entry [e, h], in units of 1/AlphaDen
AttnLogits(a_input, n_edges, L) ==
  [e \in 1..n_edges, h \in 0..(L.num_heads - 1) |->
     LeakyRelu(SumInt([k \in 0..(2 * L.c_out - 1) |-> a_input[e, h, k] * L.a[h, k]],
                      2 * L.c_out))]

\* the logits flattened head-major
MutFlatHeadMajor(attn_logits, n_edges, num_heads) ==
  [q \in 1..(n_edges * num_heads) |->
     attn_logits[((q - 1) % n_edges) + 1, (q - 1) \div n_edges]]

\* attn_logits.reshape(-1): edge-major, head-minor
FlatLogits(attn_logits, n_edges, num_heads) ==
  [q \in 1..(n_edges * num_heads) |->
     attn_logits[((q - 1) \div num_heads) + 1, (q - 1) % num_heads]]

\* the mask taken as adj_matrix != 0
MutMaskNonzero(adj_matrix, ashape, num_heads) ==
  SelectSeq(
    [q \in 1..(ashape[1] * ashape[2] * ashape[3] * num_heads) |->
       << (q - 1) \div (ashape[2] * ashape[3] * num_heads),
          ((q - 1) \div (ashape[3] * num_heads)) % ashape[2],
          ((q - 1) \div num_heads) % ashape[3],
          (q - 1) % num_heads >>],
    LAMBDA m : adj_matrix[m[1], m[2], m[3]] # 0)

\* the true positions of adj_matrix[..., None].repeat(1, 1, 1, num_heads) == 1,
\* in row-major order of [b, i, j, h]
MaskPositions(adj_matrix, ashape, num_heads) ==
  SelectSeq(
    [q \in 1..(ashape[1] * ashape[2] * ashape[3] * num_heads) |->
       << (q - 1) \div (ashape[2] * ashape[3] * num_heads),
          ((q - 1) \div (ashape[3] * num_heads)) % ashape[2],
          ((q - 1) \div num_heads) % ashape[3],
          (q - 1) % num_heads >>],
    LAMBDA m : adj_matrix[m[1], m[2], m[3]] = 1)

\* a masked assignment takes as many values as the mask has true positions,
\* or a single value, which is broadcast
MaskedAssignAccepts(n_values, n_mask) == n_values = n_mask \/ n_values = 1

\* attn_matrix[mask] = values, from the k-th true position on: the k-th true
\* position takes the k-th value (the only value, when a single one is broadcast)
RECURSIVE MaskedAssign(_, _, _, _)
MaskedAssign(dense, mask, values, k) ==
  IF k > Len(mask) THEN dense
  ELSE MaskedAssign([dense EXCEPT ![mask[k]] = Logit(values[IF Len(values) = 1 THEN 1 ELSE k])],
                    mask, values, k + 1)

\* new_zeros(adj_matrix.shape + (num_heads,)).fill_(-9e15), then the masked
\* assignment of the flattened logits
AttnMatrix(mask, values, ashape, num_heads) ==
  MaskedAssign([b \in 0..(ashape[1] - 1), i \in 0..(ashape[2] - 1),
                j \in 0..(ashape[3] - 1), h \in 0..(num_heads - 1) |-> FillValue],
               mask, values, 1)

\* the maximum over dim 2 that softmax subtracts, for row (b, i) and head h
RowMax(attn_matrix, b, i, h, m) ==
  LET jmax == CHOOSE j \in 0..(m - 1) :
                \A k \in 0..(m - 1) : LogitLeq(attn_matrix[b, i, k, h], attn_matrix[b, i, j, h])
  IN attn_matrix[b, i, jmax, h]

\* softmax taken over dim 1, the destination axis
MutSoftmaxDim1(attn_matrix, ashape, num_heads) ==
  LET colmax(b, j, h) ==
        LET imax == CHOOSE i \in 0..(ashape[2] - 1) :
                      \A k \in 0..(ashape[2] - 1) :
                        LogitLeq(attn_matrix[b, k, j, h], attn_matrix[b, i, j, h])
        IN attn_matrix[b, imax, j, h]
      weight == [b \in 0..(ashape[1] - 1), i \in 0..(ashape[2] - 1),
                 j \in 0..(ashape[3] - 1), h \in 0..(num_heads - 1) |->
                   ExpDiff(attn_matrix[b, i, j, h], colmax(b, j, h))]
  IN [b \in 0..(ashape[1] - 1), i \in 0..(ashape[2] - 1),
      j \in 0..(ashape[3] - 1), h \in 0..(num_heads - 1) |->
        Rat(weight[b, i, j, h],
            SumInt([k \in 0..(ashape[2] - 1) |-> weight[b, k, j, h]], ashape[2]))]

\* F.softmax(attn_matrix, dim=2): exp(x - max) over the sum of exp(x - max) along j
Softmax(attn_matrix, ashape, num_heads) ==
  LET rowmax == Tab([b \in 0..(ashape[1] - 1), i \in 0..(ashape[2] - 1),
                     h \in 0..(num_heads - 1) |-> RowMax(attn_matrix, b, i, h, ashape[3])])
      weight == Tab([b \in 0..(ashape[1] - 1), i \in 0..(ashape[2] - 1),
                     j \in 0..(ashape[3] - 1), h \in 0..(num_heads - 1) |->
                       ExpDiff(attn_matrix[b, i, j, h], rowmax[b, i, h])])
      rowsum == Tab([b \in 0..(ashape[1] - 1), i \in 0..(ashape[2] - 1),
                     h \in 0..(num_heads - 1) |->
                       SumInt([k \in 0..(ashape[3] - 1) |-> weight[b, i, k, h]], ashape[3])])
  IN [b \in 0..(ashape[1] - 1), i \in 0..(ashape[2] - 1),
      j \in 0..(ashape[3] - 1), h \in 0..(num_heads - 1) |->
        Rat(weight[b, i, j, h], rowsum[b, i, h])]

\* attn_probs.permute(0, 3, 1, 2), the tensor that is printed: entry [b, h, i, j]
Permute0312(attn_probs, ashape, num_heads) ==
  [b \in 0..(ashape[1] - 1), h \in 0..(num_heads - 1),
   i \in 0..(ashape[2] - 1), j \in 0..(ashape[3] - 1) |-> attn_probs[b, i, j, h]]

\* what the print branch emits
Printed(attn_probs, ashape, num_heads, print_attn_probs) ==
  IF print_attn_probs THEN << Permute0312(attn_probs, ashape, num_heads) >> ELSE << >>

\* the print branch rebinding attn_probs to a permuted tensor
MutPrintRebinds(attn_probs, ashape, num_heads, print_attn_probs) ==
  IF print_attn_probs /\ ashape[2] = ashape[3]
  THEN [b \in 0..(ashape[1] - 1), i \in 0..(ashape[2] - 1),
        j \in 0..(ashape[3] - 1), h \in 0..(num_heads - 1) |-> attn_probs[b, j, i, h]]
  ELSE attn_probs

\* attn_probs as the aggregation reads it after the print branch: permute
\* returns a new view and the name attn_probs is not rebound
AttnProbsAfterPrint(attn_probs, ashape, num_heads, print_attn_probs) == attn_probs

\* einsum without broadcasting
MutNoBroadcast(m, n) == m = n

\* einsum broadcasts a dimension of size 1 against any size and rejects any
\* other disagreement
Broadcastable(m, n) == m = n \/ m = 1 \/ n = 1

EinsumAccepts(ashape, fshape) ==
  Broadcastable(ashape[1], fshape[1]) /\ Broadcastable(ashape[3], fshape[2])

\* the index into a dimension of size n, which is 0 when the dimension is broadcast
Bc(ix, n) == IF n = 1 THEN 0 ELSE ix

\* einsum('bijh,bjhc->bihc', attn_probs, node_feats)
Aggregate(attn_probs, ashape, feats, fshape, L) ==
  LET nb == Max2(ashape[1], fshape[1])
      nj == Max2(ashape[3], fshape[2])
  IN [b \in 0..(nb - 1), i \in 0..(ashape[2] - 1),
      h \in 0..(L.num_heads - 1), c \in 0..(L.c_out - 1) |->
        SumRat([j \in 0..(nj - 1) |->
                  RMulInt(attn_probs[Bc(b, ashape[1]), i, Bc(j, ashape[3]), h],
                          feats[Bc(b, fshape[1]), Bc(j, fshape[2]), h, c])], nj)]

\* shape of the einsum result
AggregateShape(ashape, fshape, L) ==
  << Max2(ashape[1], fshape[1]), ashape[2], L.num_heads, L.c_out >>

\* reshape(batch_size, num_nodes, -1) needs the element count to be a multiple
\* of batch_size * num_nodes
ReshapeAccepts(gshape, batch_size, num_nodes) ==
  (gshape[1] * gshape[2] * gshape[3] * gshape[4]) % (batch_size * num_nodes) = 0

\* node_feats.reshape(batch_size, num_nodes, -1): the elements in row-major order
ConcatHeads(agg, gshape, batch_size, num_nodes) ==
  LET width == (gshape[1] * gshape[2] * gshape[3] * gshape[4]) \div (batch_size * num_nodes)
      at(q) == agg[q \div (gshape[2] * gshape[3] * gshape[4]),
                   (q \div (gshape[3] * gshape[4])) % gshape[2],
                   (q \div gshape[4]) % gshape[3],
                   q % gshape[4]]
  IN [shape |-> << batch_size, num_nodes, width >>,
      value |-> [b \in 0..(batch_size - 1), i \in 0..(num_nodes - 1),
                 k \in 0..(width - 1) |-> at((b * num_nodes + i) * width + k)]]

\* the heads summed instead of averaged
MutSumHeads(agg, gshape) ==
  [shape |-> << gshape[1], gshape[2], gshape[4] >>,
   value |-> [b \in 0..(gshape[1] - 1), i \in 0..(gshape[2] - 1),
              c \in 0..(gshape[4] - 1) |->
                SumRat([h \in 0..(gshape[3] - 1) |-> agg[b, i, h, c]], gshape[3])]]

\* node_feats.mean(dim=2)
MeanHeads(agg, gshape) ==
  [shape |-> << gshape[1], gshape[2], gshape[4] >>,
   value |-> [b \in 0..(gshape[1] - 1), i \in 0..(gshape[2] - 1),
              c \in 0..(gshape[4] - 1) |->
                RDivInt(SumRat([h \in 0..(gshape[3] - 1) |-> agg[b, i, h, c]], gshape[3]),
                        gshape[3])]]

\* GATLayer.forward: the value returned (status "ok", with the tensors computed
\* on the way) or the step that raised
Forward(L, node_feats, fshape, adj_matrix, ashape, print_attn_probs) ==
  LET batch_size == BatchSize(fshape)
      num_nodes == NumNodes(fshape)
  IN
  IF ~LinearAccepts(L, fshape) THEN Failure("projection") ELSE
  LET feats == Tab(Projection(L, node_feats, fshape))
      edges == Tab(Nonzero(adj_matrix, ashape))
      node_feats_flat == NodeFeatsFlat(feats, fshape, L)
      edge_indices_row == Tab(EdgeIndicesRow(edges, num_nodes))
      edge_indices_col == Tab(EdgeIndicesCol(edges, num_nodes))
  IN
  IF ~(IndexSelectAccepts(edge_indices_row, batch_size * num_nodes)
       /\ IndexSelectAccepts(edge_indices_col, batch_size * num_nodes))
  THEN Failure("index_select") ELSE
  LET a_input == AInput(node_feats_flat, edge_indices_row, edge_indices_col, L)
      attn_logits == AttnLogits(a_input, Len(edges), L)
      values == FlatLogits(attn_logits, Len(edges), L.num_heads)
      mask == Tab(MaskPositions(adj_matrix, ashape, L.num_heads))
  IN
  IF ~MaskedAssignAccepts(Len(values), Len(mask)) THEN Failure("masked_assign") ELSE
  LET attn_matrix == Tab(AttnMatrix(mask, values, ashape, L.num_heads))
      attn_probs == Tab(Softmax(attn_matrix, ashape, L.num_heads))
      printed == Printed(attn_probs, ashape, L.num_heads, print_attn_probs)
      probs_used == AttnProbsAfterPrint(attn_probs, ashape, L.num_heads, print_attn_probs)
  IN
  IF ~EinsumAccepts(ashape, fshape) THEN FailureAfterPrint("einsum", printed) ELSE
  LET agg == Tab(Aggregate(probs_used, ashape, feats, fshape, L))
      gshape == AggregateShape(ashape, fshape, L)
  IN
  IF L.concat_heads /\ ~ReshapeAccepts(gshape, batch_size, num_nodes)
  THEN FailureAfterPrint("reshape", printed) ELSE
  LET out == IF L.concat_heads
             THEN ConcatHeads(agg, gshape, batch_size, num_nodes)
             ELSE MeanHeads(agg, gshape)
  IN [status |-> "ok", shape |-> out.shape, value |-> out.value,
      edges |-> edges,
      edge_indices_row |-> edge_indices_row, edge_indices_col |-> edge_indices_col,
      attn_matrix |-> attn_matrix, attn_probs |-> attn_probs, printed |-> printed]


\* ------------------------------------------------------------ the caller's tensors
\* node features of shape fshape, drawn from a family indexed by a seed
GenFeats(seed, fshape) ==
  [b \in 0..(fshape[1] - 1), i \in 0..(fshape[2] - 1), c \in 0..(fshape[3] - 1) |->
     ((seed + 2 * b + i + c) % 3) - 1]

\* bit p of code (0 beyond the width of a machine integer)
Bit(code, p) == IF p > 30 THEN 0 ELSE (code \div (2 ^ p)) % 2

\* a 0/1 adjacency batch of shape ashape: the matrix of batch element b holds,
\* in row-major order, the bits of code advanced by shift for every element
\* before it (shift = 0 repeats one matrix through the batch)
GenAdj(code, shift, ashape) ==
  [b \in 0..(ashape[1] - 1), i \in 0..(ashape[2] - 1), j \in 0..(ashape[3] - 1) |->
     Bit((code + b * shift) % (MaxAdjCode + 1), i * ashape[3] + j)]

\* adj with the entry at row-major position p replaced by a value that is
\* neither 0 nor 1; the layer reads the adjacency only through nonzero() and
\* == 1, which every such value answers alike
WithOtherValue(adj, ashape, p) ==
  [adj EXCEPT ![p \div (ashape[2] * ashape[3]), (p \div ashape[3]) % ashape[2],
                p % ashape[3]] = 2]

\* ------------------------------------------------------------ the state machine
\* layer:  the GATLayer object (its parameters), or the failed construction
\* args:   the tensors the caller passed to the last call, as the caller holds
\*         them after the call
\* result: what the last call returned or raised, with the tensors it computed
\* built:  the layer as its constructor returned it (history)
VARIABLES layer, args, result, built

vars == << layer, args, result, built >>

NoCall == [status |-> "none"]

Init ==
  /\ layer = NoLayer
  /\ args = NoCall
  /\ result = NoCall
  /\ built = NoLayer

\* GATLayer(c_in, c_out, num_heads, concat_heads); the seed fixes the input
\* width together with the random weights
Construct ==
  /\ layer.status = "none"
  /\ \E c_out \in 1..MaxCOut, num_heads \in 1..MaxHeads,
        concat_heads \in BOOLEAN, seed \in 0..MaxSeed :
       layer' = GATLayerInit(1 + (seed % 2), c_out, num_heads, concat_heads, seed)
  /\ built' = layer'
  /\ UNCHANGED << args, result >>

\* The objects a call was given, as they are once it has ended.  forward
\* rebinds its local name node_feats and writes (fill_, masked assignment)
\* only into the tensor it allocates with new_zeros: the caller's two tensors
\* and the parameters are read, never written.
NodeFeatsAfter(node_feats, r) == node_feats
AdjMatrixAfter(adj_matrix, r) == adj_matrix
LayerAfter(L, r) == L

\* layer(node_feats, adj_matrix, print_attn_probs); draw records how the
\* caller built the two tensors
Call(node_feats, fshape, adj_matrix, ashape, print_attn_probs, draw) ==
  /\ layer.status = "ok"
  /\ result.status = "none"
  /\ LET r == Forward(layer, node_feats, fshape, adj_matrix, ashape, print_attn_probs)
     IN /\ result' = r
        /\ args' = [status |-> draw.kind, code |-> draw.code, shift |-> draw.shift,
                    node_feats |-> NodeFeatsAfter(node_feats, r), fshape |-> fshape,
                    adj_matrix |-> AdjMatrixAfter(adj_matrix, r), ashape |-> ashape,
                    print_attn_probs |-> print_attn_probs]
        /\ layer' = LayerAfter(layer, r)
        /\ UNCHANGED built

\* a call with well-formed shapes and a 0/1 adjacency batch; the code of the
\* adjacency also seeds the features, and the call either prints, with one
\* matrix repeated through the batch, or is silent, with a matrix per element
ForwardCall ==
  /\ layer.status = "ok"
  /\ \E B \in 1..MaxBatch, N \in 1..MaxNodes, code \in 0..MaxAdjCode,
        mode \in {<< 0, TRUE >>, << 5, FALSE >>} :
       Call(GenFeats(code, << B, N, layer.c_in >>), << B, N, layer.c_in >>,
            GenAdj(code, mode[1], << B, N, N >>), << B, N, N >>, mode[2],
            [kind |-> "well-formed", code |-> code, shift |-> mode[1]])

\* a call with well-formed shapes whose adjacency holds a value other than 0 and 1
ForwardOtherValue ==
  /\ layer.status = "ok"
  /\ \E B \in 1..MaxBatch, N \in 1..MaxNodes, code \in 0..MaxAdjCode :
       Call(GenFeats(code, << B, N, layer.c_in >>), << B, N, layer.c_in >>,
            WithOtherValue(GenAdj(code, 0, << B, N, N >>), << B, N, N >>,
                           code % (B * N * N)),
            << B, N, N >>, FALSE,
            [kind |-> "other-value", code |-> code, shift |-> 0])

\* the shapes [B, N, d] and [Ba, Na, Ma] that differ from the well-formed
\* [B, N, c_in] and [B, N, N] in the one dimension named by kind
Malformed(kind, B, N, m) ==
  [fshape |-> << B, N, IF kind = "c_in" THEN m ELSE layer.c_in >>,
   ashape |-> << IF kind = "batch" THEN m ELSE B,
                 IF kind = "rows" THEN m ELSE N,
                 IF kind = "cols" THEN m ELSE N >>]

\* a call with malformed shapes and a 0/1 adjacency batch: the feature width,
\* the adjacency batch size, its row count or its column count is m instead
ForwardMalformed ==
  /\ layer.status = "ok"
  /\ \E kind \in {"c_in", "batch", "rows", "cols"},
        B \in 1..MaxBatch, N \in 1..MaxNodes, code \in 0..(MaxAdjCode \div 4) :
     \E m \in 1..(IF kind = "batch" THEN MaxBatch ELSE MaxNodes) :
       /\ m # (CASE kind = "c_in" -> layer.c_in [] kind = "batch" -> B [] OTHER -> N)
       /\ LET sh == Malformed(kind, B, N, m)
          IN Call(GenFeats(code, sh.fshape), sh.fshape,
                  GenAdj(code, 0, sh.ashape), sh.ashape, FALSE,
                  [kind |-> kind, code |-> code, shift |-> 0])

\* the caller drops the tensors of the last call; the layer stays
Release ==
  /\ result.status # "none"
  /\ args' = NoCall
  /\ result' = NoCall
  /\ UNCHANGED << layer, built >>

Next == Construct \/ ForwardCall \/ ForwardOtherValue \/ ForwardMalformed \/ Release

Spec == Init /\ [][Next]_vars


\* ------------------------------------------------------------ properties
\* index sets of the last call
Batches == 0..(args.ashape[1] - 1)
Rows == 0..(args.ashape[2] - 1)
Cols == 0..(args.ashape[3] - 1)
Heads == 0..(layer.num_heads - 1)

Returned == args.status # "none" /\ result.status = "ok"
ZeroOne == \A b \in Batches, i \in Rows, j \in Cols : args.adj_matrix[b, i, j] \in {0, 1}
WellFormed == args.status = "well-formed"

Neighbours(b, i) == {j \in Cols : args.adj_matrix[b, i, j] = 1}

\* the sum of the fractions f[x], x in S
RECURSIVE SumOver(_, _)
SumOver(f, S) ==
  IF S = {} THEN RZero
  ELSE LET x == CHOOSE x \in S : TRUE IN RAdd(f[x], SumOver(f, S \ {x}))

\* C1: construction raises exactly when concat_heads holds and c_out is not a
\* multiple of num_heads; a constructed layer has per-head width c_out / num_heads
\* when concatenating and c_out when averaging.
C1_Construction ==
  layer.status # "none" =>
    /\ layer.status = "AssertionError"
         <=> (layer.concat_heads /\ layer.c_out_arg % layer.num_heads # 0)
    /\ layer.status = "ok" =>
         /\ layer.concat_heads => layer.c_out * layer.num_heads = layer.c_out_arg
         /\ ~layer.concat_heads => layer.c_out = layer.c_out_arg
         /\ DOMAIN layer.projection
              = (0..(layer.c_out * layer.num_heads - 1)) \X (0..(layer.c_in - 1))
         /\ DOMAIN layer.a = (0..(layer.num_heads - 1)) \X (0..(2 * layer.c_out - 1))

C1_Witness ==
  layer.status = "AssertionError" /\ layer.concat_heads /\ layer.c_out_arg = 1
    /\ layer.num_heads = 2

\* C2: after a call on a 0/1 adjacency, for every destination row with at least
\* one neighbour and every head, the attention probabilities of the row's
\* neighbours sum to 1.
C2_NeighbourProbsSumToOne ==
  (Returned /\ ZeroOne) =>
    \A b \in Batches, i \in Rows, h \in Heads :
      Neighbours(b, i) # {} =>
        SumOver([j \in Cols |-> result.attn_probs[b, i, j, h]], Neighbours(b, i)) = ROne

C2_Witness ==
  /\ Returned /\ ZeroOne /\ WellFormed
  /\ \E b \in Batches, i \in Rows, h \in Heads :
       /\ Cardinality(Neighbours(b, i)) >= 2
       /\ \E j, k \in Neighbours(b, i) :
            result.attn_probs[b, i, j, h] # result.attn_probs[b, i, k, h]
  /\ \E b \in Batches, i \in Rows : Neighbours(b, i) # {} /\ Neighbours(b, i) # Cols

\* C3 as stated: every position with adjacency 0 holds the fill value and gets
\* attention probability 0, in every destination row, also a row without any
\* neighbour.
C3_Original ==
  (Returned /\ ZeroOne) =>
    \A b \in Batches, i \in Rows, j \in Cols, h \in Heads :
      args.adj_matrix[b, i, j] = 0 =>
        /\ result.attn_matrix[b, i, j, h].e15 = -9
        /\ result.attn_probs[b, i, j, h] = RZero

\* C3 amended: every position with adjacency 0 holds the fill value; it gets
\* attention probability 0 when its destination row has at least one neighbour,
\* and probability 1/M (M the number of columns) when the row has none.
C3_MaskedOut ==
  (Returned /\ ZeroOne) =>
    \A b \in Batches, i \in Rows, j \in Cols, h \in Heads :
      args.adj_matrix[b, i, j] = 0 =>
        /\ result.attn_matrix[b, i, j, h].e15 = -9
        /\ result.attn_matrix[b, i, j, h].u = 0
        /\ Neighbours(b, i) # {} => result.attn_probs[b, i, j, h] = RZero
        /\ Neighbours(b, i) = {} =>
             result.attn_probs[b, i, j, h] = Rat(1, args.ashape[3])

C3_Witness ==
  /\ Returned /\ ZeroOne /\ WellFormed
  /\ \E b \in Batches, i \in Rows : Neighbours(b, i) # {} /\ Neighbours(b, i) # Cols
  /\ \E b \in Batches, i \in Rows : Neighbours(b, i) = {} /\ args.ashape[3] >= 2


\* the positions of the last call's adjacency that hold a nonzero value, a one
NonzeroSet == {t \in Batches \X Rows \X Cols : args.adj_matrix[t[1], t[2], t[3]] # 0}
OnesSet == {t \in Batches \X Rows \X Cols : args.adj_matrix[t[1], t[2], t[3]] = 1}
OtherSet == {t \in Batches \X Rows \X Cols : args.adj_matrix[t[1], t[2], t[3]] \notin {0, 1}}

\* C4 as stated: a call whose adjacency holds a value other than 0 and 1 raises
\* nothing, and the position of that value stays at the fill value for every head.
C4_Original ==
  (args.status = "other-value") =>
    /\ result.status = "ok"
    /\ \A t \in OtherSet, h \in Heads :
         result.attn_matrix[t[1], t[2], t[3], h] = [e15 |-> -9, u |-> 0]

\* C4 amended: the value is not validated, but nonzero() counts its position as
\* an edge and the == 1 mask does not, so the masked assignment is given more
\* logits than the mask has positions and raises; the call returns only when a
\* single logit was computed (one nonzero entry, one head), which is broadcast,
\* and then every position is at the fill value.
C4_OtherValueRaises ==
  (args.status = "other-value") =>
    /\ OtherSet # {}
    /\ Cardinality(NonzeroSet) * layer.num_heads > 1 =>
         result.status = "error" /\ result.raised_at = "masked_assign"
    /\ Cardinality(NonzeroSet) * layer.num_heads = 1 =>
         /\ result.status = "ok"
         /\ \A t \in Batches \X Rows \X Cols, h \in Heads :
              result.attn_matrix[t[1], t[2], t[3], h] = [e15 |-> -9, u |-> 0]

C4_Witness ==
  /\ args.status = "other-value"
  /\ result.status = "error" /\ result.raised_at = "masked_assign"
  /\ OnesSet # {}
  /\ layer.num_heads = 1

\* the projected row of node (b, i): column k of node_feats[b, i] times the
\* transposed projection weight
ProjectedRow(b, i, k) ==
  SumInt([c \in 0..(layer.c_in - 1) |-> layer.projection[k, c] * args.node_feats[b, i, c]],
         layer.c_in)

IdentityBatch ==
  \A b \in Batches, i \in Rows, j \in Cols :
    args.adj_matrix[b, i, j] = (IF i = j THEN 1 ELSE 0)

\* C5: when every adjacency matrix of the batch is the identity, every node has
\* attention probability 1 on its self-loop for every head, and its output is
\* its own projected row: the whole row in head order when concatenating, the
\* mean over the heads of the row's per-head slices when averaging.
C5_SelfLoopOnly ==
  (Returned /\ WellFormed /\ IdentityBatch) =>
    \A b \in Batches, i \in Rows :
      /\ \A h \in Heads : result.attn_probs[b, i, i, h] = ROne
      /\ layer.concat_heads =>
           \A k \in 0..(layer.c_out * layer.num_heads - 1) :
             result.value[b, i, k] = Rat(ProjectedRow(b, i, k), 1)
      /\ ~layer.concat_heads =>
           \A c \in 0..(layer.c_out - 1) :
             result.value[b, i, c]
               = Rat(SumInt([h \in Heads |-> ProjectedRow(b, i, h * layer.c_out + c)],
                            layer.num_heads),
                     layer.num_heads)

C5_Witness ==
  /\ Returned /\ WellFormed /\ IdentityBatch
  /\ args.ashape[1] = 2 /\ args.ashape[2] = 2
  /\ layer.num_heads = 2 /\ ~layer.concat_heads
  /\ \E b \in Batches, i \in Rows, c \in 0..(layer.c_out - 1) : result.value[b, i, c].n # 0

\* C6: a call with features [B, N, c_in] and adjacency [B, N, N] returns a
\* tensor of shape [B, N, c_out], c_out the constructor's argument, whether the
\* heads are concatenated or averaged.
C6_OutputShape ==
  (Returned /\ args.status \in {"well-formed", "other-value"}) =>
    /\ result.shape = << args.fshape[1], args.fshape[2], layer.c_out_arg >>
    /\ DOMAIN result.value
         = (0..(args.fshape[1] - 1)) \X (0..(args.fshape[2] - 1))
             \X (0..(layer.c_out_arg - 1))

C6_Witness ==
  /\ Returned /\ WellFormed
  /\ layer.concat_heads /\ layer.num_heads = 2 /\ layer.c_out_arg = 2
  /\ args.fshape[1] = 2 /\ args.fshape[2] = 2


\* the two tensors as the caller built them for the last call
NodeFeatsPassed == GenFeats(args.code, args.fshape)
AdjMatrixPassed ==
  IF args.status = "other-value"
  THEN WithOtherValue(GenAdj(args.code, 0, args.ashape), args.ashape,
                      args.code % (args.ashape[1] * args.ashape[2] * args.ashape[3]))
  ELSE GenAdj(args.code, args.shift, args.ashape)

\* what a call returns or raises, without what it printed
Outcome(r) ==
  IF r.status = "ok" THEN << "ok", r.shape, r.value >> ELSE << "error", r.raised_at >>

\* the last call again, with the debug flag the other way
OtherFlag ==
  Forward(layer, args.node_feats, args.fshape, args.adj_matrix, args.ashape,
          ~args.print_attn_probs)

AfterCall ==
  /\ args.node_feats = NodeFeatsPassed
  /\ args.adj_matrix = AdjMatrixPassed
  /\ Outcome(result) = Outcome(OtherFlag)
  /\ result.status = "ok" => (result.printed # << >> <=> args.print_attn_probs)

\* C7: through any sequence of calls the layer's parameters stay as the
\* constructor set them; after every call the caller's two tensors are as they
\* were passed, and the call returned what the same call returns with the debug
\* flag the other way, which only decides whether the attention probabilities
\* are printed.
C7_Pure ==
  /\ layer = built
  /\ args.status # "none" => AfterCall

C7_Witness ==
  /\ Returned /\ WellFormed /\ args.print_attn_probs
  /\ result.printed # << >>
  /\ args.ashape[2] = 2
  /\ \E b \in Batches, h \in Heads :
       result.attn_probs[b, 0, 1, h] # result.attn_probs[b, 1, 0, h]
  /\ \E b \in Batches, i \in Rows, k \in 0..(layer.c_out_arg - 1) :
       result.value[b, i, k].n # 0

EdgeOutOfRange ==
  \E t \in NonzeroSet :
    \/ t[1] * args.fshape[2] + t[2] >= args.fshape[1] * args.fshape[2]
    \/ t[1] * args.fshape[2] + t[3] >= args.fshape[1] * args.fshape[2]

Projected(b, i, h, c) == ProjectedRow(b, i, h * layer.c_out + c)

\* the logit of head h for destination i attending to source j, in units of
\* 1/AlphaDen: a[h] dotted with [Projected(i) ++ Projected(j)], then the leaky
\* rectifier
EdgeLogit(b, i, j, h) ==
  LeakyRelu(
    SumInt([k \in 0..(layer.c_out - 1) |-> layer.a[h, k] * Projected(b, i, h, k)],
           layer.c_out)
    + SumInt([k \in 0..(layer.c_out - 1) |->
                layer.a[h, layer.c_out + k] * Projected(b, j, h, k)], layer.c_out))

\* the output of head h for destination i, entry c: the sum over the sources j
\* of attn_probs[b, i, j, h] * Projected(b, j, h, c)
HeadOutput(b, i, h, c) ==
  SumOver([j \in Cols |-> RMulInt(result.attn_probs[b, i, j, h], Projected(b, j, h, c))],
          Cols)

RatLeq(p, q) == p.n * q.d <= q.n * p.d

\* C9: on a 0/1 adjacency the dense logit at [b, i, j, h] of an edge is the
\* logit of that edge and head, destination i first and source j second; the
\* probabilities are normalised along j and ordered as the logits of the row;
\* the output of (b, i, h) is the sum over j of attn_probs[b, i, j, h] times the
\* projected vector of j, laid out by head when concatenating and averaged over
\* the heads otherwise.
C9_LogitPlacement ==
  (Returned /\ WellFormed) =>
    \A b \in Batches, i \in Rows :
      /\ \A j \in Neighbours(b, i), h \in Heads :
           result.attn_matrix[b, i, j, h] = [e15 |-> 0, u |-> EdgeLogit(b, i, j, h)]
      /\ \A h \in Heads :
           /\ SumOver([j \in Cols |-> result.attn_probs[b, i, j, h]], Cols) = ROne
           /\ \A j, k \in Neighbours(b, i) :
                EdgeLogit(b, i, j, h) <= EdgeLogit(b, i, k, h) =>
                  RatLeq(result.attn_probs[b, i, j, h], result.attn_probs[b, i, k, h])
      /\ layer.concat_heads =>
           \A h \in Heads, c \in 0..(layer.c_out - 1) :
             result.value[b, i, h * layer.c_out + c] = HeadOutput(b, i, h, c)
      /\ ~layer.concat_heads =>
           \A c \in 0..(layer.c_out - 1) :
             result.value[b, i, c]
               = RDivInt(SumOver([h \in Heads |-> HeadOutput(b, i, h, c)], Heads),
                         layer.num_heads)

C9_Witness ==
  /\ Returned /\ WellFormed
  /\ layer.num_heads = 2
  /\ \E b \in Batches, i \in Rows :
       /\ Neighbours(b, i) = Cols /\ Cardinality(Cols) = 2
       /\ EdgeLogit(b, i, 0, 0) # EdgeLogit(b, i, 1, 0)
       /\ EdgeLogit(b, i, 0, 0) # EdgeLogit(b, i, 0, 1)
       /\ EdgeLogit(b, i, 0, 1) < 0
       /\ result.attn_probs[b, i, 0, 0] # result.attn_probs[b, i, 1, 0]

\* batch element b of the last call's two tensors, as a batch of one
SliceFeats(b) ==
  [z \in {0}, i \in 0..(args.fshape[2] - 1), c \in 0..(args.fshape[3] - 1) |->
     args.node_feats[b, i, c]]
SliceAdj(b) ==
  [z \in {0}, i \in Rows, j \in Cols |-> args.adj_matrix[b, i, j]]

\* the layer called on batch element b alone
Alone(b) ==
  Forward(layer, SliceFeats(b), << 1, args.fshape[2], args.fshape[3] >>,
          SliceAdj(b), << 1, args.ashape[2], args.ashape[3] >>, FALSE)

\* C10: with well-formed shapes every gathered index of an edge of batch
\* element b lies in b * N .. b * N + N - 1, and the output and attention
\* probabilities of element b are those of a call on element b alone, whatever
\* the other elements of the batch hold.
C10_BatchIndependence ==
  (Returned /\ WellFormed) =>
    /\ \A e \in 1..Len(result.edges) :
         LET lo == result.edges[e][1] * args.fshape[2]
             hi == lo + args.fshape[2] - 1
         IN /\ lo <= result.edge_indices_row[e] /\ result.edge_indices_row[e] <= hi
            /\ lo <= result.edge_indices_col[e] /\ result.edge_indices_col[e] <= hi
    /\ \A b \in Batches :
         LET one == Alone(b)
         IN /\ one.status = "ok"
            /\ \A i \in Rows, k \in 0..(layer.c_out_arg - 1) :
                 result.value[b, i, k] = one.value[0, i, k]
            /\ \A i \in Rows, j \in Cols, h \in Heads :
                 result.attn_probs[b, i, j, h] = one.attn_probs[0, i, j, h]

C10_Witness ==
  /\ Returned /\ WellFormed
  /\ args.ashape[1] = 2 /\ args.ashape[2] = 2
  /\ \E i \in Rows : Neighbours(0, i) # Neighbours(1, i)
  /\ \E i \in Rows, h \in Heads :
       /\ Neighbours(1, i) = Cols
       /\ result.attn_probs[1, i, 0, h] # result.attn_probs[1, i, 1, h]
  /\ \E i \in Rows, k \in 0..(layer.c_out_arg - 1) :
       result.value[0, i, k] # result.value[1, i, k]

====
